---- MODULE Spec2Model ----
(***************************************************************************)
(* The vocabulary enrichment pipeline of App: the bounded-concurrency run  *)
(* loop processFiles, its control handlers and the state they share.       *)
(*                                                                         *)
(* The repository holds two schedulers over the same run loop:             *)
(*   build = "stop"  : src/App.tsx (App with handleStop and                *)
(*                     stopProcessingRef),                                 *)
(*   build = "pause" : src/unnamed/part_000 (App with togglePause,         *)
(*                     resetAll, pausedRef and abortRef).                  *)
(* JavaScript runs every handler and every continuation of an await to     *)
(* the next await without interleaving, so one action is one such          *)
(* uninterrupted stretch of code.                                          *)
(***************************************************************************)
EXTENDS Integers, Sequences, FiniteSets, TLC

\* ------------------------------------------------------------------ bounds
\* processFiles invocations the model keeps apart at one time
MaxLoops == 2
\* irregular lookups in one behaviour: a lookup that fails (fetchWordData
\* returns null) counts one, a lookup that settles before an earlier entry
\* of its window counts one
MaxFaults == 1

\* const CONCURRENCY = 5
CONCURRENCY == 5

VARIABLES
    build,       \* which scheduler is running: "stop" or "pause"
    disk,        \* the files the user can select, by name
    files,       \* useState files: the selected files, by name
    processing,  \* useState processing
    paused,      \* useState paused (pause build)
    progress,    \* useState progress: current, total, currentWord
    results,     \* useState results: sequence of FileResult
    pausedRef,   \* useRef pausedRef.current (pause build)
    abortRef,    \* useRef abortRef.current (pause build),
                 \* stopProcessingRef.current (stop build)
    runs,        \* the processFiles invocations, each with its locals
    faults,      \* number of irregular lookups so far
    splitCount,  \* useState splitCount: the batch size of the number input
    downloads,   \* the last export click: its handler and the calls of
                 \* downloadJSON it has made
    batchLoop,   \* the for loop of handleExportByQuantity: running, its i
    emitted,     \* what each export handler emitted when it was first
                 \* invoked, and whether it has been invoked again
    call,        \* a function applied on its own: its name and arguments
    ret          \* what that application returned

vars == <<build, disk, files, processing, paused, progress, results, pausedRef,
          abortRef, runs, faults, splitCount, downloads, batchLoop, emitted,
          call, ret>>

\* ------------------------------------------------------- JavaScript values
Undefined == [t |-> "undefined", v |-> ""]
JNull == [t |-> "null", v |-> ""]
JStr(s) == [t |-> "string", v |-> s]
JObj(f) == [t |-> "object", v |-> f]
JArr(items) == [t |-> "array", v |-> items]

\* !x of JavaScript
Falsy(x) == x.t \in {"undefined", "null"} \/ (x.t = "string" /\ x.v = "")

\* a || b
Or(a, b) == IF Falsy(a) THEN b ELSE a

\* the position an array holds under a key, 0 when the key is no index
ArrayIndex(key) == CASE key = "0" -> 1 [] key = "1" -> 2 [] OTHER -> 0

\* what reading a property of null or of undefined throws
TypeError == [t |-> "TypeError", v |-> ""]

\* current[key]: a missing property reads as undefined, a property of null
\* or undefined throws
Prop(cur, key) ==
    CASE cur.t = "object" ->
           IF key \in DOMAIN cur.v THEN cur.v[key] ELSE Undefined
      [] cur.t = "array" ->
           IF ArrayIndex(key) \in DOMAIN cur.v THEN cur.v[ArrayIndex(key)]
           ELSE Undefined
      [] cur.t \in {"null", "undefined"} -> TypeError
      [] OTHER -> Undefined

\* for (const key of keys) { if (current === null || current === undefined)
\* return defaultValue; current = current[key] }
\* return current === undefined ? defaultValue : current
\* (current holds one value per iteration: it is bound once, by the
\* singleton set; an exception thrown by current[key] leaves the loop)
RECURSIVE Walk(_, _, _)
Walk(cur, keys, defaultValue) ==
    CHOOSE out \in
        { IF current.t = "TypeError" THEN current
          ELSE IF keys = <<>>
          THEN IF current.t = "undefined" THEN defaultValue ELSE current
          ELSE IF current.t = "null" \/ current.t = "undefined"
               THEN defaultValue
               ELSE Walk(Prop(current, Head(keys)), Tail(keys), defaultValue)
          : current \in {cur} } : TRUE

\* a getDeep that gives the default for a resolved null too
getDeepNullAsDefault(obj, keys, defaultValue) ==
    IF Falsy(obj) \/ Walk(obj, keys, defaultValue).t = "null"
    THEN defaultValue
    ELSE Walk(obj, keys, defaultValue)

\* getDeep(obj, path, defaultValue), path given as its keys after
\* path.replace(/\[(\d+)\]/g, ".$1").split(".")
getDeep(obj, keys, defaultValue) ==
    IF Falsy(obj) THEN defaultValue ELSE Walk(obj, keys, defaultValue)

Max(S) == CHOOSE x \in S : \A y \in S : y <= x

Min(S) == CHOOSE x \in S : \A y \in S : x <= y

\* ----------------------------------------------------------------- strings
\* A string is the sequence of its characters, each a one-character string.
\* \d
Digit == {"0", "1", "2", "3", "4", "5", "6", "7", "8", "9"}

\* [a-z]
LowerCase == {"a", "b", "c", "d", "e", "f", "g", "h", "i", "j", "k", "l", "m",
              "n", "o", "p", "q", "r", "s", "t", "u", "v", "w", "x", "y", "z"}

\* \s inside a line, and what trim() removes
WhiteSpace == {" ", "\t"}

\* the character U+FF1B of parsed.join, written by its code point
FullwidthSemicolon == "U+FF1B"

\* the characters of the texts of the model. JSON.parse is modelled on
\* texts over them: they spell no object, no literal (true, false, null),
\* no escape, no sign and no exponent.
Alphabet == {"1", "2", " ", "n", "v", "x", ".", ",", "[", "]", "\""}

\* s.includes(sub)
Includes(s, sub) ==
    \E i \in 1..(Len(s) - Len(sub) + 1) : SubSeq(s, i, i + Len(sub) - 1) = sub

\* s.startsWith(c) for a one-character c
StartsWith(s, c) == Len(s) > 0 /\ s[1] = c

\* s.trim()
Trim(s) ==
    IF \A i \in DOMAIN s : s[i] \in WhiteSpace THEN <<>>
    ELSE LET first == CHOOSE i \in DOMAIN s :
                          /\ s[i] \notin WhiteSpace
                          /\ \A j \in 1..(i - 1) : s[j] \in WhiteSpace
             last == CHOOSE i \in DOMAIN s :
                          /\ s[i] \notin WhiteSpace
                          /\ \A j \in (i + 1)..Len(s) : s[j] \in WhiteSpace
         IN SubSeq(s, first, last)

\* s without the characters of set C
Without(s, C) == SelectSeq(s, LAMBDA c : c \notin C)

\* the end of the longest run of characters of C that starts at i: the
\* position after it (i itself when the run is empty)
RunEnd(s, i, C) ==
    IF i > Len(s) THEN i
    ELSE CHOOSE j \in i..(Len(s) + 1) :
            /\ \A m \in i..(j - 1) : s[m] \in C
            /\ j = Len(s) + 1 \/ s[j] \notin C

\* the first position from i on that holds character c, Len(s) + 1 if none
IndexFrom(s, i, c) ==
    IF i > Len(s) THEN i
    ELSE CHOOSE j \in i..(Len(s) + 1) :
            /\ \A m \in i..(j - 1) : s[m] # c
            /\ j = Len(s) + 1 \/ s[j] = c

DigitValue(d) ==
    CASE d = "0" -> 0 [] d = "1" -> 1 [] d = "2" -> 2 [] d = "3" -> 3
      [] d = "4" -> 4 [] d = "5" -> 5 [] d = "6" -> 6 [] d = "7" -> 7
      [] d = "8" -> 8 [] d = "9" -> 9

\* Number(s) for a string of digits
RECURSIVE Number(_)
Number(s) ==
    IF s = <<>> THEN 0
    ELSE 10 * Number(SubSeq(s, 1, Len(s) - 1)) + DigitValue(s[Len(s)])

\* the string of a sequence of characters
RECURSIVE Text(_)
Text(chars) == IF chars = <<>> THEN "" ELSE chars[1] \o Text(Tail(chars))

\* -------------------------------------------------------------- JSON.parse
\* The values JSON.parse yields on a text over Alphabet: a string, a
\* number (kept as the text String() prints for it) or an array.
JsonString(chars) == [t |-> "string", v |-> chars]
JsonNumber(text) == [t |-> "number", v |-> text]
JsonArray(items) == [t |-> "array", v |-> items]

\* a SyntaxError
SyntaxError == [ok |-> FALSE, val |-> JsonString(<<>>), next |-> 0]

Parsed(val, next) == [ok |-> TRUE, val |-> val, next |-> next]

\* a string literal at i: to the next quote (the texts hold no escape)
ParseString(s, i) ==
    LET close == IndexFrom(s, i + 1, "\"")
    IN IF close > Len(s) \/ "\t" \in { s[m] : m \in (i + 1)..(close - 1) }
       THEN SyntaxError
       ELSE Parsed(JsonString(SubSeq(s, i + 1, close - 1)), close + 1)

\* the text String() prints for the number whose literal has the integer
\* part int and the fraction digits frac: the fraction loses its trailing
\* zeros, and its point when nothing is left
NumberText(int, frac) ==
    LET kept == CHOOSE n \in 0..Len(frac) :
                    /\ n = 0 \/ frac[n] # "0"
                    /\ \A m \in (n + 1)..Len(frac) : frac[m] = "0"
    IN IF kept = 0 THEN int ELSE int \o <<".">> \o SubSeq(frac, 1, kept)

\* a number literal at i: digits without a leading zero, then an optional
\* point with digits
ParseNumber(s, i) ==
    LET intEnd == RunEnd(s, i, Digit)
        int == SubSeq(s, i, intEnd - 1)
        hasPoint == intEnd <= Len(s) /\ s[intEnd] = "."
        fracEnd == IF hasPoint THEN RunEnd(s, intEnd + 1, Digit) ELSE intEnd
        frac == IF hasPoint THEN SubSeq(s, intEnd + 1, fracEnd - 1) ELSE <<>>
    IN IF (Len(int) > 1 /\ int[1] = "0") \/ (hasPoint /\ frac = <<>>)
       THEN SyntaxError
       ELSE Parsed(JsonNumber(NumberText(int, frac)), fracEnd)

\* A value at i, and the elements of an array from i on. What a step of
\* the parse has read is bound once, by a singleton set.
RECURSIVE ParseValue(_, _)
RECURSIVE ParseElements(_, _, _)
ParseValue(s, i) ==
    IF i > Len(s) THEN SyntaxError
    ELSE IF s[i] = "\"" THEN ParseString(s, i)
    ELSE IF s[i] \in Digit THEN ParseNumber(s, i)
    ELSE IF s[i] = "["
         THEN LET j == RunEnd(s, i + 1, WhiteSpace)
              IN IF j <= Len(s) /\ s[j] = "]"
                 THEN Parsed(JsonArray(<<>>), j + 1)
                 ELSE ParseElements(s, j, <<>>)
    ELSE SyntaxError

ParseElements(s, i, items) ==
    CHOOSE out \in
        { IF ~element.ok THEN SyntaxError
          ELSE LET j == RunEnd(s, element.next, WhiteSpace)
               IN IF j > Len(s) THEN SyntaxError
                  ELSE IF s[j] = ","
                       THEN ParseElements(s, RunEnd(s, j + 1, WhiteSpace),
                                          Append(items, element.val))
                  ELSE IF s[j] = "]"
                       THEN Parsed(JsonArray(Append(items, element.val)), j + 1)
                  ELSE SyntaxError
          : element \in { ParseValue(s, i) } } : TRUE

\* JSON.parse(text): one value between white space, nothing after it
JSONParse(s) ==
    CHOOSE out \in
        { IF value.ok /\ RunEnd(s, value.next, WhiteSpace) = Len(s) + 1
          THEN value ELSE SyntaxError
          : value \in { ParseValue(s, RunEnd(s, 1, WhiteSpace)) } } : TRUE

\* String(value), and array.join(separator): an array prints as its
\* elements joined by commas
RECURSIVE String(_)
RECURSIVE Join(_, _)
String(value) ==
    IF value.t = "array" THEN Join(value.v, <<",">>) ELSE value.v

Join(items, separator) ==
    IF items = <<>> THEN <<>>
    ELSE IF Len(items) = 1 THEN String(items[1])
    ELSE Join(SubSeq(items, 1, Len(items) - 1), separator)
         \o separator \o String(items[Len(items)])

\* raw.replace(/^\[|\]$/g, '')
StripBrackets(raw) ==
    LET from == IF StartsWith(raw, "[") THEN 2 ELSE 1
        to == IF Len(raw) > 0 /\ raw[Len(raw)] = "]" THEN Len(raw) - 1
              ELSE Len(raw)
    IN SubSeq(raw, from, to)

\* formatTranslation(raw)
formatTranslation(raw) ==
    IF raw = <<>> THEN <<>>
    ELSE CHOOSE out \in
           { IF parsed.ok
             THEN IF parsed.val.t = "array"
                  THEN Join(parsed.val.v, <<FullwidthSemicolon>>)
                  ELSE String(parsed.val)
             ELSE Trim(Without(StripBrackets(raw), {"\""}))
             : parsed \in { JSONParse(raw) } } : TRUE

\* ------------------------------------------------------------- the inputs
Entry(rank, word, definitions, rawTrans) ==
    [rank |-> rank, word |-> word, definitions |-> definitions,
     rawTrans |-> rawTrans]

Def(pos, trans) == [pos |-> pos, trans |-> trans]

\* ------------------------------------------------------- parseMarkdownFile
\* content.split(/\n\s*\n/) on a content given as its lines: the blocks are
\* the runs of lines between lines of white space
RECURSIVE Blocks(_)
Blocks(content) ==
    IF content = <<>> THEN <<>>
    ELSE LET stop == CHOOSE j \in 1..(Len(content) + 1) :
                         /\ \A m \in 1..(j - 1) : Trim(content[m]) # <<>>
                         /\ j = Len(content) + 1 \/ Trim(content[j]) = <<>>
             rest == Blocks(SubSeq(content, stop + 1, Len(content)))
         IN IF stop = 1 THEN rest
            ELSE << SubSeq(content, 1, stop - 1) >> \o rest

\* block.split("\n").map((l) => l.trim()).filter(Boolean)
BlockLines(block) ==
    SelectSeq([i \in DOMAIN block |-> Trim(block[i])], LAMBDA l : l # <<>>)

\* lines[0].match(/^(\d+)\s+(.+)$/)
TitleMatch(l) ==
    LET digitsEnd == RunEnd(l, 1, Digit)
        wordStart == RunEnd(l, digitsEnd, WhiteSpace)
    IN IF digitsEnd > 1 /\ wordStart > digitsEnd /\ wordStart <= Len(l)
       THEN [ok |-> TRUE, rank |-> SubSeq(l, 1, digitsEnd - 1),
             word |-> SubSeq(l, wordStart, Len(l))]
       ELSE [ok |-> FALSE, rank |-> <<>>, word |-> <<>>]

\* "n.", "adj.", "v.", "adv.", "prep.", "conj."
PosMarkers ==
    { <<"n", ".">>, <<"a", "d", "j", ".">>, <<"v", ".">>,
      <<"a", "d", "v", ".">>, <<"p", "r", "e", "p", ".">>,
      <<"c", "o", "n", "j", ".">> }

\* l.includes('["') && (l.includes("n.") || ... || l.includes("conj."))
IsCandidate(l) ==
    Includes(l, <<"[", "\"">>) /\ \E marker \in PosMarkers : Includes(l, marker)

\* lines.find(...): the first candidate line of the block, the empty
\* string standing for undefined (a candidate line is never empty)
FindDefLine(lines) ==
    LET found == { i \in DOMAIN lines : IsCandidate(lines[i]) }
    IN IF found = {} THEN <<>> ELSE lines[Min(found)]

NoMatch == [ok |-> FALSE, pos |-> <<>>, trans |-> <<>>, next |-> 0]

\* /([a-z]+\.)\s*(\[[^\]]+\])/ matched at position p of s
MatchAt(s, p) ==
    LET lettersEnd == RunEnd(s, p, LowerCase)
        open == RunEnd(s, lettersEnd + 1, WhiteSpace)
        close == IndexFrom(s, open + 1, "]")
    IN IF /\ lettersEnd > p /\ lettersEnd <= Len(s) /\ s[lettersEnd] = "."
          /\ open <= Len(s) /\ s[open] = "["
          /\ close <= Len(s) /\ close > open + 1
       THEN [ok |-> TRUE, pos |-> SubSeq(s, p, lettersEnd - 1),
             trans |-> SubSeq(s, open, close), next |-> close + 1]
       ELSE NoMatch

\* while ((match = posRegex.exec(defLine)) !== null) definitions.push({
\* pos: match[1].replace(".", ""), trans: match[2] }), from position from
RECURSIVE Matches(_, _)
Matches(s, from) ==
    LET starts == { p \in from..Len(s) : MatchAt(s, p).ok }
        match == MatchAt(s, Min(starts))
    IN IF starts = {} THEN <<>>
       ELSE << Def(Text(match.pos), match.trans) >> \o Matches(s, match.next)

\* the definitions cut from the candidate line
Definitions(defLine) ==
    IF defLine = <<>> THEN <<>>
    ELSE IF Matches(defLine, 1) = <<>> /\ StartsWith(defLine, "[")
         THEN << Def("misc", defLine) >>
         ELSE Matches(defLine, 1)

\* a loop body that takes a block of one line too
ParseBlockOfOneLine(block) ==
    LET lines == BlockLines(block)
        titleMatch == TitleMatch(lines[1])
        defLine == FindDefLine(lines)
    IN IF Len(lines) < 1 THEN <<>>
       ELSE IF ~titleMatch.ok THEN <<>>
       ELSE << Entry(titleMatch.rank, Text(titleMatch.word),
                     Definitions(defLine), defLine) >>

\* the body of the loop over the blocks: the entry of a block, if any
ParseBlock(block) ==
    LET lines == BlockLines(block)
        titleMatch == TitleMatch(lines[1])
        defLine == FindDefLine(lines)
    IN IF Len(lines) < 2 THEN <<>>
       ELSE IF ~titleMatch.ok THEN <<>>
       ELSE << Entry(titleMatch.rank, Text(titleMatch.word),
                     Definitions(defLine), defLine) >>

RECURSIVE ParseBlocks(_)
ParseBlocks(blocks) ==
    IF blocks = <<>> THEN <<>>
    ELSE ParseBlock(Head(blocks)) \o ParseBlocks(Tail(blocks))

\* parseMarkdownFile(content)
parseMarkdownFile(content) == ParseBlocks(Blocks(content))

\* the folders a behaviour can start with
Disks == { {"a.md", "b.md"}, {"b.md", "c.md"} }

\* the text of each file of the pool, as its lines (content.split("\n")):
\* a.md holds six entries, that is two windows, the second entry with a
\* sense line that yields no definition; b.md holds one entry, c.md none
FileText(f) ==
    CASE f = "a.md" ->
           << <<"1", " ", "a", "1">>,
              <<"v", ".", " ", "[", "\"", "x", "\"", "]", " ", "n", ".", " ", "[", "\"", "n", "\"", ",", "\"", "v", "\"", "]">>,
              <<>>,
              <<"2", " ", "a", "2">>,
              <<"n", ".", " ", "[", "\"", "x", "\"">>,
              <<>>,
              <<"3", " ", "a", "3">>,
              <<"n", ".", " ", "[", "\"", "x", "\"", "]">>,
              <<>>,
              <<"4", " ", "a", "4">>,
              <<"n", ".", " ", "[", "\"", "v", "\"", "]">>,
              <<" ", " ">>,
              <<>>,
              <<"5", " ", "a", "5">>,
              <<"n", ".", " ", "[", "\"", "n", "\"", "]">>,
              <<>>,
              <<"6", " ", "a", "6">>,
              <<"a", "d", "j", ".", " ", "[", "\"", "x", "\"", ",", "\"", "n", "\"", "]">> >>
      [] f = "b.md" ->
           << <<"7", " ", "b", "1">>,
              <<"n", ".", " ", "[", "\"", "x", "\"", "]">> >>
      [] OTHER ->
           << <<"n", "o", " ", "e", "n", "t", "r", "y", " ", "h", "e", "r", "e">>,
              <<>>,
              <<" ">> >>

\* the entries of each file of the pool
Vocabulary ==
    [f \in {"a.md", "b.md", "c.md"} |-> parseMarkdownFile(FileText(f))]

\* words = parseMarkdownFile(await file.text())
FileWords(f) == Vocabulary[f]

\* the selections the file input can deliver from a folder: one or more
\* distinct files, in any order
Selections(d) ==
    { s \in UNION { [1..n -> d] : n \in 1..Cardinality(d) } :
        \A i, j \in DOMAIN s : i # j => s[i] # s[j] }

\* what the lookup service can answer for a word; JNull is fetchWordData's
\* value after a transport failure or a non-success status
ResponseOf(word) ==
    JObj([ec |-> JObj([word |-> JArr(<< JObj([usphone |-> JStr(word),
                                              ukphone |-> JStr(word)]) >>),
                       exam_type |-> JArr(<< JStr("CET4") >>)]),
          collins_primary |->
              JObj([words |-> JObj([indexforms |-> JArr(<< JStr(word) >>)])]),
          pic_dict |-> JObj([pic |-> JArr(<< JObj([image |-> JStr("image")]) >>)]),
          word_video |->
              JObj([word_videos |->
                  JArr(<< JObj([video |-> JObj([cover |-> JStr("cover"),
                                                title |-> JStr(word),
                                                url |-> JStr("url")])]) >>)])])

\* how a lookup can end: with a response, with fetch rejecting, with a
\* status that is not ok, with a body that res.json() cannot parse
Outcomes == {"ok", "networkError", "notOk", "badJson"}

\* try { res = await fetch(...); if (!res.ok) throw ...; return await
\* res.json() } catch (error) { return null }
fetchWordData(word, outcome) ==
    IF outcome = "ok" THEN ResponseOf(word) ELSE JNull

\* the paths of the record construction, as their keys: "ec.word[0].usphone"
UsPhonePath == <<"ec", "word", "0", "usphone">>
\* "ec.word[0].ukphone"
UkPhonePath == <<"ec", "word", "0", "ukphone">>
\* "collins_primary.words.indexforms"
InflectionsPath == <<"collins_primary", "words", "indexforms">>
\* "ec.exam_type"
TagsPath == <<"ec", "exam_type">>
\* "pic_dict.pic[0].image"
ImagePath == <<"pic_dict", "pic", "0", "image">>
\* "word_video.word_videos[0].video.cover", ".title", ".url"
VideoPath(field) == <<"word_video", "word_videos", "0", "video", field>>

\* ------------------------------------------------------------ the run loop
RECURSIVE SumWords(_)
SumWords(fs) ==
    IF fs = <<>> THEN 0 ELSE Len(FileWords(Head(fs))) + SumWords(Tail(fs))

NoRun ==
    [pc |-> "idle", parsedFiles |-> <<>>, totalWords |-> 0,
     globalProcessedCount |-> 0, allResults |-> <<>>, fi |-> 0, i |-> 0,
     fileProcessedWords |-> <<>>, inflight |-> {}, lookups |-> 0]

NewRun(fs) ==
    [pc |-> "parsing", parsedFiles |-> fs, totalWords |-> 0,
     globalProcessedCount |-> 0, allResults |-> <<>>, fi |-> 0, i |-> 0,
     fileProcessedWords |-> <<>>, inflight |-> {}, lookups |-> 0]

WordsOf(r) == FileWords(r.parsedFiles[r.fi])

\* a slice without its end
ChunkRest(words, i) == { k \in 1..Len(words) : i < k }

\* words.slice(i, i + CONCURRENCY), as the positions of its entries
Chunk(words, i) == { k \in 1..Len(words) : i < k /\ k <= i + CONCURRENCY }

\* a loop that reads the cancel flag everywhere but before a file
AbortCheckSkipsFile(place, abort) == place # "file" /\ abort

\* a loop that reads the cancel flag before a file only
AbortCheckFileOnly(place, abort) == place = "file" /\ abort

\* The reads of the cancel flag in the loop, by their place:
\*   "file"    for (const fileObj of parsedFiles) { if (abortRef.current) break;
\*   "window"  for (let i = 0; ...) { if (abortRef.current) break;
\*   "pause"   while (pausedRef.current) { if (abortRef.current) break;
\*   "task"    chunk.map(async (entry) => { if (abortRef.current) return;
\*   "fileEnd" allResults.push(...); if (abortRef.current) break;
AbortCheck(place, abort) == abort

\* a loop without the pause check
PauseWaitsNever(b, pausedFlag, abort) == FALSE

\* a pause loop whose condition never turns false
PauseWaitsForever(b, pausedFlag, abort) == b = "pause"

\* while (pausedRef.current) { if (abortRef.current) break; await ... }:
\* only the pause build has this loop
PauseWaits(b, pausedFlag, abort) ==
    b = "pause" /\ pausedFlag /\ ~AbortCheck("pause", abort)

\* unshift in place of push
PushResultFront(all, name, data) ==
    << [fileName |-> name, data |-> data] >> \o all

\* allResults.push({ fileName, data: fileProcessedWords })
PushResult(all, name, data) == Append(all, [fileName |-> name, data |-> data])

\* The loop from one of its points to its next await (pc "window": the
\* Promise.all of a window; pc "sleep": the timer of the pause loop) or to
\* its end (pc "done"). fi is the number of files whose body the loop has
\* entered, and so the position of the file in progress; i is the offset
\* of the window in it.
RECURSIVE Loop(_, _, _, _, _)
Loop(r, at, b, abort, pausedFlag) ==
    CASE at = "file" ->
           IF r.fi >= Len(r.parsedFiles) \/ AbortCheck("file", abort)
           THEN [r EXCEPT !.pc = "done"]
           ELSE Loop([r EXCEPT !.fi = @ + 1, !.fileProcessedWords = <<>>,
                               !.i = 0],
                     "window", b, abort, pausedFlag)
      [] at = "window" ->
           IF r.i >= Len(WordsOf(r)) \/ AbortCheck("window", abort)
           THEN Loop(r, "fileEnd", b, abort, pausedFlag)
           ELSE Loop(r, "pause", b, abort, pausedFlag)
      [] at = "pause" ->
           IF PauseWaits(b, pausedFlag, abort)
           THEN [r EXCEPT !.pc = "sleep"]
           ELSE LET tasks == IF AbortCheck("task", abort) THEN {}
                             ELSE Chunk(WordsOf(r), r.i)
                IN IF tasks = {}
                   THEN Loop([r EXCEPT !.i = @ + CONCURRENCY], "window",
                             b, abort, pausedFlag)
                   ELSE [r EXCEPT !.pc = "window", !.inflight = tasks,
                                  !.lookups = @ + Cardinality(tasks)]
      [] OTHER ->
           LET r2 == [r EXCEPT !.allResults =
                        PushResult(@, r.parsedFiles[r.fi], r.fileProcessedWords)]
           IN IF AbortCheck("fileEnd", abort)
              THEN [r2 EXCEPT !.pc = "done"]
              ELSE Loop(r2, "file", b, abort, pausedFlag)

\* a definition loop without the fallback definition
definitionLoopNoFallback(entry) == entry.definitions

\* const definitionLoop = entry.definitions.length > 0 ? entry.definitions
\*                        : [{ pos: "unknown", trans: entry.rawTrans }]
definitionLoop(entry) ==
    IF Len(entry.definitions) > 0 THEN entry.definitions
    ELSE << Def("unknown", entry.rawTrans) >>

\* const processed: ProcessedWord = { ... } for one definition of an entry
ProcessedWord(entry, def, apiData) ==
    [text |-> entry.word,
     translation |-> formatTranslation(def.trans),
     partOfSpeech |-> def.pos,
     cocaRank |-> Number(entry.rank),
     phoneticUs |-> getDeep(apiData, UsPhonePath, JStr("")),
     phoneticUk |-> getDeep(apiData, UkPhonePath, JStr("")),
     inflections |->
         Or(getDeep(apiData, InflectionsPath, JArr(<<>>)), JArr(<<>>)),
     tags |-> Or(getDeep(apiData, TagsPath, JArr(<<>>)), JArr(<<>>)),
     image |-> getDeep(apiData, ImagePath, JStr("")),
     video |-> [cover |-> getDeep(apiData, VideoPath("cover"), JStr("")),
                title |-> getDeep(apiData, VideoPath("title"), JStr("")),
                url |-> getDeep(apiData, VideoPath("url"), JStr(""))]]

\* a forEach that stops after the first definition
EntryRecordsFirstOnly(entry, apiData) ==
    << ProcessedWord(entry, definitionLoop(entry)[1], apiData) >>

\* a forEach that runs from the last definition to the first
EntryRecordsReversed(entry, apiData) ==
    LET ds == definitionLoop(entry)
    IN [k \in 1..Len(ds) |-> ProcessedWord(entry, ds[Len(ds) + 1 - k], apiData)]

\* definitionLoop.forEach(def => fileProcessedWords.push(processed))
EntryRecords(entry, apiData) ==
    LET ds == definitionLoop(entry)
    IN [k \in 1..Len(ds) |-> ProcessedWord(entry, ds[k], apiData)]

\* a task that counts its records, not its entry
TaskSettlesCountingRecords(r, k, apiData) ==
    [r EXCEPT !.fileProcessedWords = @ \o EntryRecords(WordsOf(r)[k], apiData),
              !.globalProcessedCount =
                  @ + Len(EntryRecords(WordsOf(r)[k], apiData)),
              !.inflight = @ \ {k}]

\* a task that gives up when its lookup has failed
TaskSettlesSkipsFailed(r, k, apiData) ==
    IF apiData = JNull
    THEN [r EXCEPT !.inflight = @ \ {k}]
    ELSE [r EXCEPT !.fileProcessedWords =
                       @ \o EntryRecords(WordsOf(r)[k], apiData),
                   !.globalProcessedCount = @ + 1,
                   !.inflight = @ \ {k}]

\* a task that puts its first record at the head of the list and the rest
\* at its end
TaskSettlesSplitting(r, k, apiData) ==
    [r EXCEPT !.fileProcessedWords =
                  << Head(EntryRecords(WordsOf(r)[k], apiData)) >> \o @
                    \o Tail(EntryRecords(WordsOf(r)[k], apiData)),
              !.globalProcessedCount = @ + 1,
              !.inflight = @ \ {k}]

\* a task that puts its records at the head of the list
TaskSettlesPrepending(r, k, apiData) ==
    [r EXCEPT !.fileProcessedWords = EntryRecords(WordsOf(r)[k], apiData) \o @,
              !.globalProcessedCount = @ + 1,
              !.inflight = @ \ {k}]

\* a task that appends its records and leaves the count as it is
TaskSettlesUncounted(r, k, apiData) ==
    [r EXCEPT !.fileProcessedWords = @ \o EntryRecords(WordsOf(r)[k], apiData),
              !.inflight = @ \ {k}]

\* "translation"
TranslationPath == <<"translation">>

\* a classification that takes every answer for a success
successIfAnswered(apiData) == apiData.t # "null"

\* const success = !!getDeep(apiData, "ec.word[0].usphone")
\*              || !!getDeep(apiData, "translation")
success(apiData) ==
    \/ ~Falsy(getDeep(apiData, UsPhonePath, JStr("")))
    \/ ~Falsy(getDeep(apiData, TranslationPath, JStr("")))

\* the addLog calls of a task after its await, as message and type; the
\* messages are `[成功] ${entry.word}` and `[警告] ${entry.word} 数据可能不完整`
TaskLogs(entry, apiData) ==
    IF success(apiData)
    THEN << [msg |-> <<"[success] ", entry.word>>, type |-> "success"] >>
    ELSE << [msg |-> <<"[warning] ", entry.word, " incomplete">>,
             type |-> "error"] >>

\* the continuation of one task of a window once its lookup has settled
TaskSettles(r, k, apiData) ==
    [r EXCEPT !.fileProcessedWords = @ \o EntryRecords(WordsOf(r)[k], apiData),
              !.globalProcessedCount = @ + 1,
              !.inflight = @ \ {k}]

\* a barrier that gives way at the first task that settles
BarrierAtFirstSettled(r, b, abort, pausedFlag) ==
    Loop([r EXCEPT !.i = @ + CONCURRENCY], "window", b, abort, pausedFlag)

\* a barrier after which the loop takes the same window again
BarrierRepeatingWindow(r, b, abort, pausedFlag) ==
    IF r.inflight = {}
    THEN Loop(r, "window", b, abort, pausedFlag)
    ELSE r

\* Promise.all of the window resolves with its last task: i += CONCURRENCY
Barrier(r, b, abort, pausedFlag) ==
    IF r.inflight = {}
    THEN Loop([r EXCEPT !.i = @ + CONCURRENCY], "window", b, abort, pausedFlag)
    ELSE r

\* a loop that writes the headword of its last entry once more at its end
WithCurrentWordAtEnd(p, old, new) ==
    IF new.pc = "window" /\ new.lookups > old.lookups
    THEN [p EXCEPT !.currentWord = WordsOf(new)[Max(new.inflight)].word]
    ELSE IF new.pc = "done" /\ new.fi > 0 /\ WordsOf(new) # <<>>
    THEN [p EXCEPT !.currentWord = WordsOf(new)[Len(WordsOf(new))].word]
    ELSE p

\* setProgress((p) => ({ ...p, currentWord: entry.word })) of each task of a
\* window the step has dispatched: the last one stands
WithCurrentWord(p, old, new) ==
    IF new.pc = "window" /\ new.lookups > old.lookups
    THEN [p EXCEPT !.currentWord = WordsOf(new)[Max(new.inflight)].word]
    ELSE p

\* both builds guarding the publication by the cancel flag
PublishesUnlessAborted(b, abort) == ~abort

\* if (!abortRef.current) setResults(allResults)   (pause build)
\* setResults(allResults)                          (stop build)
Publishes(b, abort) == b = "stop" \/ ~abort

\* what the end of the loop leaves in results
ResultsAfter(new, b, abort) ==
    IF new.pc = "done" /\ Publishes(b, abort) THEN new.allResults ELSE results

\* setProcessing(false) at the end of processFiles
ProcessingAfter(new) == IF new.pc = "done" THEN FALSE ELSE processing

NoProgress == [current |-> 0, total |-> 0, currentWord |-> ""]

\* --------------------------------------------------------------- the views
\* a start button that stays while a run is processing
StartOfferedWhileProcessing == files # <<>> /\ results = <<>>

\* {files.length > 0 && !processing && !results.length && ( start, clear )}
StartOffered == files # <<>> /\ ~processing /\ results = <<>>

\* {processing && ( pause / resume button )}, {processing && ( stop button )}
ControlOffered == processing

\* {results.length > 0 && !processing && ( exports, new task )}
ResultsOffered == results # <<>> /\ ~processing

Alive(r) == r.pc \notin {"idle", "done"}

\* the place of a new invocation among the ones kept apart: the first
\* that holds no live invocation
FreeSlots == { n \in DOMAIN runs : ~Alive(runs[n]) }

\* ------------------------------------------------------------- the actions
\* no function is being applied on its own
NoCall == [fn |-> "none"]

\* no export button has been clicked
NoDownloads == [by |-> "none", payloads |-> <<>>]

\* handleExportByQuantity is not running
NoLoop == [running |-> FALSE, i |-> 0]

\* the application has not returned; it has returned value
NotReturned == [done |-> FALSE, value |-> Undefined]

Returned(value) == [done |-> TRUE, value |-> value]

Init ==
    /\ build \in {"stop", "pause"}
    /\ disk \in Disks
    /\ files = <<>>
    /\ processing = FALSE
    /\ paused = FALSE
    /\ progress = NoProgress
    /\ results = <<>>
    /\ pausedRef = FALSE
    /\ abortRef = FALSE
    /\ runs = [n \in 1..MaxLoops |-> NoRun]
    /\ faults = 0
    /\ splitCount = 50
    /\ downloads = NoDownloads
    /\ batchLoop = NoLoop
    /\ emitted = {}
    /\ call = NoCall
    /\ ret = NotReturned

\* a selection of files arrives at the file input or the drop zone
handleFileUpload ==
    /\ \E selectedFiles \in Selections(disk) :
         /\ files' = selectedFiles
         /\ results' = <<>>
         /\ progress' = NoProgress
    /\ IF build = "pause"
       THEN paused' = FALSE /\ pausedRef' = FALSE /\ abortRef' = FALSE
       ELSE UNCHANGED <<paused, pausedRef, abortRef>>
    /\ UNCHANGED <<build, disk, processing, runs, faults>>
    /\ UNCHANGED <<splitCount, downloads, batchLoop, emitted, call, ret>>

\* the start button: processFiles up to its first await
processFiles ==
    /\ StartOffered
    /\ FreeSlots # {}
    /\ files # <<>>
    /\ processing' = TRUE
    /\ results' = <<>>
    /\ abortRef' = FALSE
    /\ IF build = "pause"
       THEN pausedRef' = FALSE /\ paused' = FALSE
       ELSE UNCHANGED <<pausedRef, paused>>
    /\ runs' = [runs EXCEPT ![Min(FreeSlots)] = NewRun(files)]
    /\ UNCHANGED <<build, disk, files, progress, faults>>
    /\ UNCHANGED <<splitCount, downloads, batchLoop, emitted, call, ret>>

\* the files are read and parsed: processFiles from the await of the
\* Promise.all over file.text() to its next await
ParseDone ==
    \E n \in DOMAIN runs :
        /\ runs[n].pc = "parsing"
        /\ LET total == SumWords(runs[n].parsedFiles)
               r1 == [runs[n] EXCEPT !.totalWords = total]
               r2 == Loop(r1, "file", build, abortRef, pausedRef)
               p1 == [current |-> 0, total |-> total, currentWord |-> "ready"]
           IN /\ runs' = [runs EXCEPT ![n] = r2]
              /\ progress' = WithCurrentWord(p1, r1, r2)
              /\ results' = ResultsAfter(r2, build, abortRef)
              /\ processing' = ProcessingAfter(r2)
        /\ UNCHANGED <<build, disk, files, paused, pausedRef, abortRef, faults>>
        /\ UNCHANGED <<splitCount, downloads, batchLoop, emitted, call, ret>>

\* one lookup of the window in flight settles; with the last one the
\* loop goes on to its next await
SettleWith(n, k, outcome) ==
    /\ runs[n].pc = "window"
    /\ k \in runs[n].inflight
    /\ faults' = faults + (IF outcome = "ok" THEN 0 ELSE 1)
                  + (IF k = Min(runs[n].inflight) THEN 0 ELSE 1)
    /\ faults' <= MaxFaults
    /\ \E apiData \in { fetchWordData(WordsOf(runs[n])[k].word, outcome) } :
       \E r1 \in { TaskSettles(runs[n], k, apiData) } :
       \E r2 \in { Barrier(r1, build, abortRef, pausedRef) } :
          LET p1 == [progress EXCEPT !.current = r1.globalProcessedCount]
          IN /\ runs' = [runs EXCEPT ![n] = r2]
             /\ progress' = WithCurrentWord(p1, r1, r2)
             /\ results' = ResultsAfter(r2, build, abortRef)
             /\ processing' = ProcessingAfter(r2)
    /\ UNCHANGED <<build, disk, files, paused, pausedRef, abortRef>>
    /\ UNCHANGED <<splitCount, downloads, batchLoop, emitted, call, ret>>

Settle ==
    \E n \in DOMAIN runs :
        \E k \in runs[n].inflight :
            \E outcome \in Outcomes : SettleWith(n, k, outcome)

\* the 200 ms timer of the pause loop fires: the while condition is read
\* again
Wake ==
    \E n \in DOMAIN runs :
        /\ runs[n].pc = "sleep"
        /\ LET r2 == Loop(runs[n], "pause", build, abortRef, pausedRef)
           IN /\ r2.pc # "sleep"
              /\ runs' = [runs EXCEPT ![n] = r2]
              /\ progress' = WithCurrentWord(progress, runs[n], r2)
              /\ results' = ResultsAfter(r2, build, abortRef)
              /\ processing' = ProcessingAfter(r2)
        /\ UNCHANGED <<build, disk, files, paused, pausedRef, abortRef, faults>>
        /\ UNCHANGED <<splitCount, downloads, batchLoop, emitted, call, ret>>

\* the pause / resume button
togglePause ==
    /\ build = "pause"
    /\ ControlOffered
    /\ pausedRef' = ~pausedRef
    /\ paused' = ~pausedRef
    /\ UNCHANGED <<build, disk, files, processing, progress, results, abortRef,
                   runs, faults>>
    /\ UNCHANGED <<splitCount, downloads, batchLoop, emitted, call, ret>>

\* a reset that leaves the progress as it is
resetAllKeepingProgress ==
    /\ build = "pause"
    /\ StartOffered \/ ResultsOffered
    /\ abortRef' = TRUE
    /\ pausedRef' = FALSE
    /\ files' = <<>>
    /\ results' = <<>>
    /\ processing' = FALSE
    /\ paused' = FALSE
    /\ UNCHANGED <<build, disk, runs, faults, progress>>
    /\ UNCHANGED <<splitCount, downloads, batchLoop, emitted, call, ret>>

\* the clear-list and new-task buttons of the pause build
resetAll ==
    /\ build = "pause"
    /\ StartOffered \/ ResultsOffered
    /\ abortRef' = TRUE
    /\ pausedRef' = FALSE
    /\ files' = <<>>
    /\ results' = <<>>
    /\ processing' = FALSE
    /\ paused' = FALSE
    /\ progress' = NoProgress
    /\ UNCHANGED <<build, disk, runs, faults>>
    /\ UNCHANGED <<splitCount, downloads, batchLoop, emitted, call, ret>>

\* the stop button of the stop build
handleStop ==
    /\ build = "stop"
    /\ ControlOffered
    /\ abortRef' = TRUE
    /\ UNCHANGED <<build, disk, files, processing, paused, progress, results,
                   pausedRef, runs, faults>>
    /\ UNCHANGED <<splitCount, downloads, batchLoop, emitted, call, ret>>

\* the clear-list button of the stop build: setFiles([])
clearList ==
    /\ build = "stop"
    /\ StartOffered
    /\ files' = <<>>
    /\ UNCHANGED <<build, disk, processing, paused, progress, results, pausedRef,
                   abortRef, runs, faults>>
    /\ UNCHANGED <<splitCount, downloads, batchLoop, emitted, call, ret>>

\* the new-task button of the stop build
newTask ==
    /\ build = "stop"
    /\ ResultsOffered
    /\ files' = <<>>
    /\ results' = <<>>
    /\ progress' = NoProgress
    /\ UNCHANGED <<build, disk, processing, paused, pausedRef, abortRef, runs,
                   faults>>
    /\ UNCHANGED <<splitCount, downloads, batchLoop, emitted, call, ret>>

Next ==
    \/ handleFileUpload
    \/ processFiles
    \/ ParseDone
    \/ Settle
    \/ Wake
    \/ togglePause
    \/ resetAll
    \/ handleStop
    \/ clearList
    \/ newTask

Spec == Init /\ [][Next]_vars

\* a window of some run is in flight: Settle can then be taken (the first
\* lookup of the window may settle with a response, which uses no fault)
WindowInFlight == \E n \in DOMAIN runs : runs[n].pc = "window"

\* the step counts one more entry of a window in flight: among the steps
\* of Next these are the Settle steps
LookupSettles ==
    \E n \in DOMAIN runs :
        /\ runs[n].pc = "window"
        /\ runs'[n].globalProcessedCount = runs[n].globalProcessedCount + 1

\* The scheduling of the run loop: the parse of the files ends, a lookup
\* in flight settles (fetchWordData resolves in every case), and the
\* 200 ms timer of the pause loop keeps firing, so that a pause flag that is
\* clear again and again is found clear by one of the polls. The weak
\* fairness of Settle is written out, WF_vars(Settle) being
\* []<>(~ENABLED <<Settle>>_vars) \/ []<><<Settle>>_vars.
LiveSpec ==
    /\ Spec
    /\ WF_vars(ParseDone)
    /\ SF_vars(Wake)
    /\ ([]<>(~WindowInFlight)) \/ ([]<><<LookupSettles>>_vars)


\* ------------------------------------------- functions applied on their own
\* getDeep and the record construction are functions of their arguments.
\* They are applied here to arguments drawn from bounded sets: the service's
\* JSON is of no trusted shape.

\* an answer holding null at the end of every path
NullAtFields ==
    JObj([ec |-> JObj([word |-> JArr(<< JObj([usphone |-> JNull,
                                              ukphone |-> JNull]) >>),
                       exam_type |-> JNull]),
          collins_primary |-> JObj([words |-> JObj([indexforms |-> JNull])]),
          pic_dict |-> JObj([pic |-> JArr(<< JObj([image |-> JNull]) >>)]),
          word_video |->
              JObj([word_videos |->
                  JArr(<< JObj([video |-> JObj([cover |-> JNull,
                                                title |-> JNull,
                                                url |-> JNull])]) >>)])])

\* an answer holding null on the way of every path
NullOnPaths ==
    JObj([ec |-> JNull,
          collins_primary |-> JObj([words |-> JNull]),
          pic_dict |-> JObj([pic |-> JArr(<< JNull >>)]),
          word_video |->
              JObj([word_videos |-> JArr(<< JObj([video |-> JNull]) >>)])])

\* an answer without the fields: no ukphone, no exam_type, no
\* collins_primary, an empty pic array, a video object without properties
MissingFields(word) ==
    JObj([ec |-> JObj([word |-> JArr(<< JObj([usphone |-> JStr(word)]) >>)]),
          pic_dict |-> JObj([pic |-> JArr(<<>>)]),
          word_video |->
              JObj([word_videos |->
                  JArr(<< JObj([video |-> JObj([k \in {} |-> Undefined])]) >>)])])

\* an answer with a translation field and nothing else
TranslationOnly == JObj([translation |-> JArr(<< JStr("t") >>)])

\* what res.json() can yield for a word
Answers(word) ==
    { ResponseOf(word), NullAtFields, NullOnPaths, MissingFields(word),
      TranslationOnly, JObj([k \in {} |-> Undefined]) }

\* the paths the record construction reads, and a path ending on the way
Paths ==
    { UsPhonePath, UkPhonePath, InflectionsPath, TagsPath, ImagePath,
      VideoPath("cover"), VideoPath("title"), VideoPath("url"),
      <<"ec">>, <<"pic_dict", "pic", "0">> }

\* the defaults the record construction passes: "" and []
Defaults == { JStr(""), JArr(<<>>) }

\* the entries of the three files
AllEntries ==
    UNION { { Vocabulary[f][k] : k \in DOMAIN Vocabulary[f] } :
            f \in DOMAIN Vocabulary }

GetDeepCalls ==
    [fn : {"getDeep"},
     obj : {Undefined, JNull, JStr("")} \cup Answers("a1"),
     keys : Paths,
     defaultValue : Defaults]

\* the body of a task after its await: the records of one entry for one
\* value of apiData
ForEachCalls ==
    UNION { [fn : {"forEach"}, entry : {entry},
             apiData : {JNull} \cup Answers(entry.word)] :
            entry \in AllEntries }

\* the body of a task after its await: its log events for one entry and
\* one value of apiData
TaskCalls ==
    UNION { [fn : {"task"}, entry : {entry},
             apiData : {JNull} \cup Answers(entry.word)] :
            entry \in AllEntries }

\* the longest text given to parseMarkdownFile, in lines
MaxLines == 5

\* the lines the texts are made of: two titles (the second with white space
\* around its parts), a title whose word is a sense, a sense line, an empty
\* line, a line of white space, a rank without a word
SampleLines ==
    { <<"1", " ", "a">>,
      <<" ", "2", " ", " ", "b">>,
      <<"3", " ", "v", ".", " ", "[", "\"", "y", "\"", "]">>,
      <<"n", ".", " ", "[", "\"", "x", "\"", "]">>,
      <<>>,
      <<" ">>,
      <<"1">> }

\* the texts given to parseMarkdownFile, as their lines
ParseCalls ==
    [fn : {"parseMarkdownFile"},
     content : UNION { [1..n -> SampleLines] : n \in 0..MaxLines }]

CallInit ==
    /\ build = "pause"
    /\ disk = {"a.md", "b.md"}
    /\ files = <<>>
    /\ processing = FALSE
    /\ paused = FALSE
    /\ progress = NoProgress
    /\ results = <<>>
    /\ pausedRef = FALSE
    /\ abortRef = FALSE
    /\ runs = [n \in 1..MaxLoops |-> NoRun]
    /\ faults = 0
    /\ splitCount = 50
    /\ downloads = NoDownloads
    /\ batchLoop = NoLoop
    /\ emitted = {}
    /\ call \in GetDeepCalls \cup ForEachCalls \cup TaskCalls \cup ParseCalls
    /\ ret = NotReturned

getDeepReturns ==
    /\ call.fn = "getDeep"
    /\ ~ret.done
    /\ ret' = Returned(getDeep(call.obj, call.keys, call.defaultValue))
    /\ UNCHANGED <<build, disk, files, processing, paused, progress, results,
                   pausedRef, abortRef, runs, faults, splitCount, downloads,
                   batchLoop, emitted, call>>

forEachReturns ==
    /\ call.fn = "forEach"
    /\ ~ret.done
    /\ ret' = Returned(EntryRecords(call.entry, call.apiData))
    /\ UNCHANGED <<build, disk, files, processing, paused, progress, results,
                   pausedRef, abortRef, runs, faults, splitCount, downloads,
                   batchLoop, emitted, call>>

taskLogs ==
    /\ call.fn = "task"
    /\ ~ret.done
    /\ ret' = Returned(TaskLogs(call.entry, call.apiData))
    /\ UNCHANGED <<build, disk, files, processing, paused, progress, results,
                   pausedRef, abortRef, runs, faults, splitCount, downloads,
                   batchLoop, emitted, call>>

parseReturns ==
    /\ call.fn = "parseMarkdownFile"
    /\ ~ret.done
    /\ ret' = Returned(parseMarkdownFile(call.content))
    /\ UNCHANGED <<build, disk, files, processing, paused, progress, results,
                   pausedRef, abortRef, runs, faults, splitCount, downloads,
                   batchLoop, emitted, call>>

CallNext ==
    \/ getDeepReturns
    \/ forEachReturns
    \/ taskLogs
    \/ parseReturns

CallSpec == CallInit /\ [][CallNext]_vars

\* ---------------------------------------------------------------- exports
\* The export buttons are offered with the results of a run. The
\* specification of the exports starts where a run over a selection has
\* ended, every lookup having answered in entry order, with no pause and
\* no cancel.

\* the tasks of the windows settle one after the other, to the end of the
\* run
RECURSIVE Settled(_, _, _)
Settled(r, p, b) ==
    IF r.pc # "window" THEN [run |-> r, progress |-> p]
    ELSE CHOOSE out \in
           { Settled(r2, WithCurrentWord(
                             [p EXCEPT !.current = r1.globalProcessedCount],
                             r1, r2), b) :
               <<r1, r2>> \in
                 { <<t, Barrier(t, b, FALSE, FALSE)>> :
                     t \in { TaskSettles(r, Min(r.inflight),
                                 fetchWordData(
                                     WordsOf(r)[Min(r.inflight)].word,
                                     "ok")) } } } : TRUE

\* processFiles over fs from the parse to its last statement (each value
\* is bound once, by a singleton set)
CleanRun(fs, b) ==
    CHOOSE out \in
      { Settled(r2, WithCurrentWord(
                        [current |-> 0, total |-> r1.totalWords,
                         currentWord |-> "ready"], r1, r2), b) :
          <<r1, r2>> \in
            { <<t, Loop(t, "file", b, FALSE, FALSE)>> :
                t \in { [NewRun(fs) EXCEPT !.totalWords = SumWords(fs)] } } } :
      TRUE

\* the largest batch size typed into the number input
MaxSplit == 3

\* results.flatMap(r => r.data) with the files taken from the last one
RECURSIVE FlatMapDataReversed(_)
FlatMapDataReversed(rs) ==
    IF rs = <<>> THEN <<>>
    ELSE FlatMapDataReversed(Tail(rs)) \o Head(rs).data

\* results.flatMap(r => r.data)
RECURSIVE FlatMapData(_)
FlatMapData(rs) ==
    IF rs = <<>> THEN <<>> ELSE Head(rs).data \o FlatMapData(Tail(rs))

\* the position an argument of slice stands for in an array of length len:
\* a negative one counts from the end, and both ends are clamped
SliceIndex(x, len) == IF x < 0 THEN Max({len + x, 0}) ELSE Min({x, len})

\* a slice that runs to the end of the array
SliceToEnd(a, start, end) == SubSeq(a, SliceIndex(start, Len(a)) + 1, Len(a))

\* a.slice(start, end), positions counted from 0: empty when the start is
\* not before the end
Slice(a, start, end) ==
    IF SliceIndex(start, Len(a)) >= SliceIndex(end, Len(a)) THEN <<>>
    ELSE SubSeq(a, SliceIndex(start, Len(a)) + 1, SliceIndex(end, Len(a)))

\* Math.floor(i / splitCount) + 1 as the template literal prints it: a
\* division by 0 gives NaN for i = 0 and an infinity otherwise
BatchNumber(i, count) ==
    IF count > 0 THEN ToString((i \div count) + 1)
    ELSE IF count < 0 THEN ToString(((0 - i) \div (0 - count)) + 1)
    ELSE IF i = 0 THEN "NaN"
    ELSE IF i > 0 THEN "Infinity" ELSE "-Infinity"

\* `vocabulary_batch_${Math.floor(i / splitCount) + 1}`
BatchName(i, count) == "vocabulary_batch_" \o BatchNumber(i, count)

\* the payloads after which a batch export is followed no further
MaxBatches == 10

\* the characters of the names of the files of the pool
NameChars(fileName) ==
    CASE fileName = "a.md" -> <<"a", ".", "m", "d">>
      [] fileName = "b.md" -> <<"b", ".", "m", "d">>
      [] OTHER -> <<"c", ".", "m", "d">>

\* name.replace(/\.[^/.]+$/, ""): the name without its last dot and what
\* follows it, when that is at least one character, none of them a slash
StripExtension(name) ==
    IF \E p \in 1..(Len(name) - 1) :
          /\ name[p] = "."
          /\ \A q \in (p + 1)..Len(name) : name[q] \notin {".", "/"}
    THEN SubSeq(name, 1,
                (CHOOSE p \in 1..(Len(name) - 1) :
                    /\ name[p] = "."
                    /\ \A q \in (p + 1)..Len(name) :
                         name[q] \notin {".", "/"}) - 1)
    ELSE name

\* res.fileName.replace(/\.[^/.]+$/, "") + "_parsed"
ParsedName(fileName) ==
    Text(StripExtension(NameChars(fileName))) \o "_parsed"

\* a call downloadJSON(filename, data)
downloadJSON(filename, data) == [filename |-> filename, data |-> data]

ExportInit ==
    /\ build \in {"stop", "pause"}
    /\ disk \in Disks
    /\ \E fs \in Selections(disk) :
         \E end \in { CleanRun(fs, build) } :
            /\ files = fs
            /\ runs = [n \in 1..MaxLoops |->
                         IF n = 1 THEN end.run ELSE NoRun]
            /\ progress = end.progress
            /\ results = end.run.allResults
    /\ processing = FALSE
    /\ paused = FALSE
    /\ pausedRef = FALSE
    /\ abortRef = FALSE
    /\ faults = 0
    /\ splitCount = 50
    /\ downloads = NoDownloads
    /\ batchLoop = NoLoop
    /\ emitted = {}
    /\ call = NoCall
    /\ ret = NotReturned

\* the number input of the batch export: setSplitCount(Number(e.target.value)).
\* The input has no min attribute: it holds 0 (also when it is emptied) and
\* negative numbers as well as positive ones.
setSplitCount ==
    /\ ResultsOffered
    /\ ~batchLoop.running
    /\ \E value \in {-1, 0} \cup (1..MaxSplit) : splitCount' = value
    /\ UNCHANGED <<build, disk, files, processing, paused, progress, results,
                   pausedRef, abortRef, runs, faults, downloads, batchLoop,
                   emitted, call, ret>>

\* a handler has returned: its payloads are kept if it is its first
\* invocation, and it is marked as invoked again otherwise
Noted(e, by, count, payloads) ==
    IF \E x \in e : x.by = by
    THEN { IF x.by = by /\ x.splitCount = count
           THEN [x EXCEPT !.times = 2] ELSE x : x \in e }
    ELSE e \cup {[by |-> by, splitCount |-> count, payloads |-> payloads,
                  times |-> 1]}

\* a merged export that takes the results away
handleExportMergedDraining ==
    /\ ResultsOffered
    /\ ~batchLoop.running
    /\ downloads' =
         [by |-> "handleExportMerged",
          payloads |->
              << downloadJSON("vocabulary_merged", FlatMapData(results)) >>]
    /\ emitted' = Noted(emitted, "handleExportMerged", 0, downloads'.payloads)
    /\ results' = <<>>
    /\ UNCHANGED <<build, disk, files, processing, paused, progress,
                   pausedRef, abortRef, runs, faults, splitCount, batchLoop,
                   call, ret>>

\* the per-file export button: one download per file result
handleExportOriginal ==
    /\ ResultsOffered
    /\ ~batchLoop.running
    /\ downloads' =
         [by |-> "handleExportOriginal",
          payloads |->
              [k \in DOMAIN results |->
                  downloadJSON(ParsedName(results[k].fileName),
                               results[k].data)]]
    /\ emitted' = Noted(emitted, "handleExportOriginal", 0, downloads'.payloads)
    /\ UNCHANGED <<build, disk, files, processing, paused, progress, results,
                   pausedRef, abortRef, runs, faults, splitCount, batchLoop,
                   call, ret>>

\* the merged-export button
handleExportMerged ==
    /\ ResultsOffered
    /\ ~batchLoop.running
    /\ downloads' =
         [by |-> "handleExportMerged",
          payloads |->
              << downloadJSON("vocabulary_merged", FlatMapData(results)) >>]
    /\ emitted' = Noted(emitted, "handleExportMerged", 0, downloads'.payloads)
    /\ UNCHANGED <<build, disk, files, processing, paused, progress, results,
                   pausedRef, abortRef, runs, faults, splitCount, batchLoop,
                   call, ret>>

\* the batch-export button: handleExportByQuantity up to let i = 0
handleExportByQuantity ==
    /\ ResultsOffered
    /\ ~batchLoop.running
    /\ downloads' = [by |-> "handleExportByQuantity", payloads |-> <<>>]
    /\ batchLoop' = [running |-> TRUE, i |-> 0]
    /\ UNCHANGED <<build, disk, files, processing, paused, progress, results,
                   pausedRef, abortRef, runs, faults, splitCount, emitted,
                   call, ret>>

\* one test of i < allData.length: the loop body and i += splitCount, or
\* the return of the handler. The handler runs to its end before any other
\* handler is taken.
BatchStep ==
    /\ batchLoop.running
    /\ IF batchLoop.i < Len(FlatMapData(results))
       THEN /\ Len(downloads.payloads) < MaxBatches
            /\ downloads' =
                 [downloads EXCEPT !.payloads =
                     Append(@, downloadJSON(
                         BatchName(batchLoop.i, splitCount),
                         Slice(FlatMapData(results), batchLoop.i,
                               batchLoop.i + splitCount)))]
            /\ batchLoop' = [batchLoop EXCEPT !.i = @ + splitCount]
            /\ UNCHANGED emitted
       ELSE /\ batchLoop' = NoLoop
            /\ emitted' = Noted(emitted, "handleExportByQuantity", splitCount,
                                downloads.payloads)
            /\ UNCHANGED downloads
    /\ UNCHANGED <<build, disk, files, processing, paused, progress, results,
                   pausedRef, abortRef, runs, faults, splitCount, call, ret>>

ExportNext ==
    \/ setSplitCount
    \/ handleExportOriginal
    \/ handleExportMerged
    \/ handleExportByQuantity
    \/ BatchStep

ExportSpec == ExportInit /\ [][ExportNext]_vars

\* ---------------------------------------------------------------- helpers
\* the step ends the invocation in slot n
Completes(n) == Alive(runs[n]) /\ runs'[n].pc = "done"

ResultNames(rs) == [k \in DOMAIN rs |-> rs[k].fileName]

\* the place of a record in its file: entry position, then definition
\* position
RecordPlace(f, rec) ==
    CHOOSE pl \in (1..Len(FileWords(f))) \X (1..2) :
        /\ FileWords(f)[pl[1]].word = rec.text
        /\ pl[2] \in DOMAIN definitionLoop(FileWords(f)[pl[1]])
        /\ definitionLoop(FileWords(f)[pl[1]])[pl[2]].pos = rec.partOfSpeech

Before(a, b) == a[1] < b[1] \/ (a[1] = b[1] /\ a[2] < b[2])

InSourceOrder(fr) ==
    \A x, y \in DOMAIN fr.data :
        x < y => Before(RecordPlace(fr.fileName, fr.data[x]),
                        RecordPlace(fr.fileName, fr.data[y]))

\* the entries of a file result are the first m entries of its file, each
\* with one record per element of its definitionLoop
HoldsFirstEntries(fr, m) ==
    /\ m \in 0..Len(FileWords(fr.fileName))
    /\ \A j \in 1..Len(FileWords(fr.fileName)) :
         Cardinality({ x \in DOMAIN fr.data :
                        fr.data[x].text = FileWords(fr.fileName)[j].word })
           = IF j <= m THEN Len(definitionLoop(FileWords(fr.fileName)[j]))
             ELSE 0

EntriesHeld(fr) ==
    Cardinality({ fr.data[x].text : x \in DOMAIN fr.data })

RECURSIVE SumEntriesHeld(_)
SumEntriesHeld(rs) ==
    IF rs = <<>> THEN 0 ELSE EntriesHeld(Head(rs)) + SumEntriesHeld(Tail(rs))

\* the entries of a list of files, counted one by one
EntryCount(fs) ==
    Cardinality({ e \in (DOMAIN fs) \X (1..(CONCURRENCY + 1)) :
                    e[2] <= Len(FileWords(fs[e[1]])) })

InFlight == UNION { {n} \X runs[n].inflight : n \in DOMAIN runs }

\* ------------------------------------------------------------------ claims

\* C1: when a run that was never cancelled ends, the results it publishes
\* hold one FileResult per input file of the run, in input order, each
\* named after its file.
C1_OneResultPerFile ==
    [][\A n \in DOMAIN runs :
         (Completes(n) /\ ~abortRef) =>
            /\ results' = runs'[n].allResults
            /\ ResultNames(results') = runs[n].parsedFiles]_vars

C1_TwoFilesPublished ==
    \E n \in DOMAIN runs :
        /\ runs[n].pc = "done" /\ ~abortRef
        /\ Len(runs[n].parsedFiles) = 2
        /\ results = runs[n].allResults
        /\ ResultNames(results) = runs[n].parsedFiles

\* C2: in every published FileResult the records are in source entry
\* order, and in definition order within an entry, whatever the order in
\* which the lookups of a window settle.
C2_RecordsInEntryOrder ==
    \A k \in DOMAIN results : InSourceOrder(results[k])

\* C3: the lookups dispatched and not yet settled are never more than
\* CONCURRENCY.
C3_AtMostWindowInFlight == Cardinality(InFlight) <= CONCURRENCY

C3_FullWindowInFlight == Cardinality(InFlight) = CONCURRENCY

\* C4: when a cancelled run ends, the results it publishes hold, in input
\* order, the FileResult of every file processed in full and then the
\* FileResult of the file in progress, with the records of the entries
\* whose lookups were dispatched before the cancellation and none of the
\* others.
C4_CancelKeepsCompletedWork ==
    [][\A n \in DOMAIN runs :
         (Completes(n) /\ abortRef) =>
            LET all == runs'[n].allResults
            IN /\ results' = all
               /\ Len(all) = runs[n].fi
               /\ \A k \in DOMAIN all :
                    /\ all[k].fileName = runs[n].parsedFiles[k]
                    /\ \E m \in 0..Len(FileWords(all[k].fileName)) :
                         /\ HoldsFirstEntries(all[k], m)
                         /\ k < Len(all) => m = Len(FileWords(all[k].fileName))
               /\ SumEntriesHeld(all) = runs[n].lookups]_vars

C4_PartialFilePublished ==
    \E n \in DOMAIN runs :
        /\ runs[n].pc = "done" /\ abortRef
        /\ results = runs[n].allResults
        /\ Len(results) = 2
        /\ results[1].data # <<>>
        /\ results[2].data # <<>>
        /\ runs[n].globalProcessedCount < runs[n].totalWords

\* C5: once a run is cancelled it starts no further file, and neither its
\* result list nor the results it publishes hold a FileResult for a file
\* that had not been started.
C5_NoResultForUnstartedFile ==
    [][\A n \in DOMAIN runs :
         (Alive(runs[n]) /\ abortRef) =>
            /\ runs'[n].fi = runs[n].fi
            /\ Len(runs'[n].allResults) <= runs[n].fi
            /\ Completes(n) => Len(results') <= runs[n].fi]_vars

C5_UnstartedFileLeftOut ==
    \E n \in DOMAIN runs :
        /\ runs[n].pc = "done" /\ abortRef
        /\ Len(runs[n].parsedFiles) = 2
        /\ results = runs[n].allResults
        /\ Len(results) = 1

\* C6: while the cancel flag is set a live run dispatches no lookup, and
\* every lookup that leaves the window in flight has settled and been
\* counted.
C6_NoDispatchAfterCancel ==
    [][\A n \in DOMAIN runs :
         (Alive(runs[n]) /\ abortRef) =>
            /\ runs'[n].lookups = runs[n].lookups
            /\ runs'[n].inflight \subseteq runs[n].inflight
            /\ runs'[n].globalProcessedCount = runs[n].globalProcessedCount
                 + Cardinality(runs[n].inflight \ runs'[n].inflight)]_vars

C6_InFlightSettledAfterCancel ==
    \E n \in DOMAIN runs :
        /\ runs[n].pc = "done" /\ abortRef
        /\ runs[n].lookups > 0
        /\ runs[n].globalProcessedCount = runs[n].lookups
        /\ runs[n].lookups < runs[n].totalWords

C8_OnlyResumeOrCancelUnpauses ==
    [][(processing /\ pausedRef /\ ~pausedRef') =>
          (togglePause \/ resetAll)]_vars

\* C9: at most one invocation of processFiles is alive at any time.
C9_OneLoopAlive ==
    Cardinality({ n \in DOMAIN runs : Alive(runs[n]) }) <= 1

\* a run has started after an earlier run dispatched lookups and ended
\* (stopped or not); the earlier one is no longer alive
C9_SecondRunStarted ==
    \E n \in DOMAIN runs :
        /\ build = "stop"
        /\ runs[n].pc = "parsing"
        /\ runs[n].lookups = 0
        /\ faults > 0
        /\ files # <<>>
        /\ Cardinality({ m \in DOMAIN runs : Alive(runs[m]) }) = 1

\* C10: totalWords is the number of entries of the input files, and when
\* a run that was not cancelled ends, its count of processed entries and
\* the reported progress.current both equal it.
C10_ProcessedReachesTotal ==
    [][\A n \in DOMAIN runs :
         /\ (runs[n].pc = "parsing" /\ runs'[n].pc # "parsing") =>
               /\ runs'[n].totalWords = EntryCount(runs[n].parsedFiles)
               /\ progress'.total = EntryCount(runs[n].parsedFiles)
         /\ (Completes(n) /\ ~abortRef) =>
               /\ runs'[n].totalWords = EntryCount(runs[n].parsedFiles)
               /\ runs'[n].globalProcessedCount = runs'[n].totalWords
               /\ progress'.current = runs'[n].totalWords]_vars

C10_AllEntriesCounted ==
    \E n \in DOMAIN runs :
        /\ runs[n].pc = "done" /\ ~abortRef
        /\ Len(runs[n].parsedFiles) = 2
        /\ runs[n].parsedFiles[2] = "a.md"
        /\ runs[n].globalProcessedCount = EntryCount(runs[n].parsedFiles)
        /\ progress.current = EntryCount(runs[n].parsedFiles)
        /\ progress.total = EntryCount(runs[n].parsedFiles)
        /\ Len(runs[n].allResults[2].data) > Len(FileWords("a.md"))

\* the records a list of entries is to yield: for each entry its number of
\* definitions, or one when it has none
RECURSIVE ExpectedRecords(_)
ExpectedRecords(words) ==
    IF words = <<>> THEN 0
    ELSE (IF Len(Head(words).definitions) > 0
          THEN Len(Head(words).definitions) ELSE 1)
         + ExpectedRecords(Tail(words))

\* C11: when a run that was not cancelled ends, every FileResult it
\* publishes holds as many records as the sum, over the entries of its
\* file, of max(1, number of definitions).
C11_RecordCountPerFile ==
    [][\A n \in DOMAIN runs :
         (Completes(n) /\ ~abortRef) =>
            /\ Len(results') = Len(runs[n].parsedFiles)
            /\ \A k \in DOMAIN results' :
                 Len(results'[k].data)
                   = ExpectedRecords(FileWords(results'[k].fileName))]_vars

\* a published file with more records than entries, one of its entries
\* having no definition
C11_MoreRecordsThanEntries ==
    \E n \in DOMAIN runs :
        /\ runs[n].pc = "done" /\ ~abortRef
        /\ results = runs[n].allResults
        /\ \E k \in DOMAIN results :
             /\ Len(results[k].data) > Len(FileWords(results[k].fileName))
             /\ Len(results[k].data)
                  = ExpectedRecords(FileWords(results[k].fileName))
             /\ \E j \in DOMAIN FileWords(results[k].fileName) :
                  FileWords(results[k].fileName)[j].definitions = <<>>

\* the record list of the f-th file of a run: its FileResult once pushed,
\* the list being filled before
ListOfFile(r, f) ==
    IF f <= Len(r.allResults) THEN r.allResults[f].data
    ELSE r.fileProcessedWords

\* the records a step has appended to the list of the file in progress
Appended(n) ==
    SubSeq(ListOfFile(runs'[n], runs[n].fi),
           Len(runs[n].fileProcessedWords) + 1,
           Len(ListOfFile(runs'[n], runs[n].fi)))

\* the response-sourced fields of a record
ResponseFields(rec) == << rec.phoneticUs >>

SettlesEntry(n, k) == \E outcome \in Outcomes : SettleWith(n, k, outcome)

\* C14: the step that settles an entry without definitions appends exactly
\* one record to the list of its file, with the entry's word and the part
\* of speech "unknown"; and every step that settles an entry appends at
\* least one record.
C14_ZeroDefinitionsOneRecord ==
    [][\A n \in DOMAIN runs : \A k \in runs[n].inflight :
         SettlesEntry(n, k) =>
            /\ Len(Appended(n)) >= 1
            /\ WordsOf(runs[n])[k].definitions = <<>> =>
                 /\ Len(Appended(n)) = 1
                 /\ Appended(n)[1].text = WordsOf(runs[n])[k].word
                 /\ Appended(n)[1].partOfSpeech = "unknown"]_vars

\* the record list of the file in progress holds the one record of a2,
\* the entry of a.md without definitions
C14_UnknownRecordHeld ==
    \E n \in DOMAIN runs :
        /\ Alive(runs[n])
        /\ runs[n].fi > 0
        /\ runs[n].parsedFiles[runs[n].fi] = "a.md"
        /\ FileWords("a.md")[2].definitions = <<>>
        /\ Cardinality({ x \in DOMAIN runs[n].fileProcessedWords :
                           runs[n].fileProcessedWords[x].text = "a2" }) = 1
        /\ \E x \in DOMAIN runs[n].fileProcessedWords :
             /\ runs[n].fileProcessedWords[x].text = "a2"
             /\ runs[n].fileProcessedWords[x].partOfSpeech = "unknown"

\* C15: the step that settles an entry with N > 0 definitions appends
\* exactly N records, the k-th with the entry's word, the number of the
\* entry's rank, the part of speech of the k-th definition and the
\* translation formatted from the sense of the k-th definition.
C15_OneRecordPerDefinition ==
    [][\A n \in DOMAIN runs : \A k \in runs[n].inflight :
         (SettlesEntry(n, k) /\ Len(WordsOf(runs[n])[k].definitions) > 0) =>
            /\ Len(Appended(n)) = Len(WordsOf(runs[n])[k].definitions)
            /\ \A j \in DOMAIN Appended(n) :
                 /\ Appended(n)[j].text = WordsOf(runs[n])[k].word
                 /\ Appended(n)[j].cocaRank = Number(WordsOf(runs[n])[k].rank)
                 /\ Appended(n)[j].partOfSpeech
                      = WordsOf(runs[n])[k].definitions[j].pos
                 /\ Appended(n)[j].translation
                      = formatTranslation(
                            WordsOf(runs[n])[k].definitions[j].trans)]_vars

\* the record list of the file in progress holds the two records of a1,
\* side by side: the verb sense ["x"] as x, then the noun sense ["n","v"]
\* as its two items joined by U+FF1B, both with word a1 and rank 1
C15_TwoSensesHeld ==
    \E n \in DOMAIN runs : \E x \in DOMAIN runs[n].fileProcessedWords :
        /\ Alive(runs[n])
        /\ x + 1 \in DOMAIN runs[n].fileProcessedWords
        /\ Len(FileWords("a.md")[1].definitions) = 2
        /\ runs[n].fileProcessedWords[x].text = "a1"
        /\ runs[n].fileProcessedWords[x].cocaRank = 1
        /\ runs[n].fileProcessedWords[x].partOfSpeech = "v"
        /\ runs[n].fileProcessedWords[x].translation = <<"x">>
        /\ runs[n].fileProcessedWords[x + 1].text = "a1"
        /\ runs[n].fileProcessedWords[x + 1].cocaRank = 1
        /\ runs[n].fileProcessedWords[x + 1].partOfSpeech = "n"
        /\ runs[n].fileProcessedWords[x + 1].translation
             = <<"n", FullwidthSemicolon, "v">>

\* C16: the step that settles an entry without definitions appends one
\* record whose translation is the entry's raw sense line, rawTrans,
\* character for character.
C16_TranslationIsRawSenseLine ==
    [][\A n \in DOMAIN runs : \A k \in runs[n].inflight :
         (SettlesEntry(n, k) /\ WordsOf(runs[n])[k].definitions = <<>>) =>
            /\ Len(Appended(n)) = 1
            /\ Appended(n)[1].translation = WordsOf(runs[n])[k].rawTrans]_vars

\* the fields of a record that are read from the lookup response
SourcedFields(rec) ==
    << rec.phoneticUs, rec.phoneticUk, rec.inflections, rec.tags, rec.image,
       rec.video.cover, rec.video.title, rec.video.url >>

IsNullOrUndefined(v) == v.t \in {"null", "undefined"}

\* C17: every field of every record that is read from the lookup response
\* (both phonetics, image, video cover, title and url, inflections, tags) is
\* neither null nor undefined, whatever the response: absent, without the
\* field, or holding null at or along the field's path.
C17_NoSourcedFieldNull ==
    (call.fn = "forEach" /\ ret.done)
        => \A j \in DOMAIN ret.value :
             \A x \in DOMAIN SourcedFields(ret.value[j]) :
                 ~IsNullOrUndefined(SourcedFields(ret.value[j])[x])

\* what the path leads to from obj, read one segment after the other:
\* undefined where obj is absent or a segment is missing on the way
RECURSIVE Resolved(_, _)
Resolved(obj, keys) ==
    IF keys = <<>> THEN obj
    ELSE LET before == Resolved(obj, SubSeq(keys, 1, Len(keys) - 1))
         IN IF IsNullOrUndefined(before) THEN Undefined
            ELSE Prop(before, keys[Len(keys)])

\* C18: getDeep(obj, path, default) returns default when obj is absent or a
\* segment of the path is missing on the way; otherwise it returns exactly
\* the resolved value, null included when the last segment holds null; it
\* never raises.
C18_GetDeepDefaultOrResolved ==
    (call.fn = "getDeep" /\ ret.done)
        => /\ ret.value.t # "TypeError"
           /\ ret.value =
                IF Resolved(call.obj, call.keys).t = "undefined"
                THEN call.defaultValue
                ELSE Resolved(call.obj, call.keys)

\* a path whose last segment holds null has returned null, not the default
C18_NullReturnedAsIs ==
    /\ call.fn = "getDeep"
    /\ ret.done
    /\ call.obj = NullAtFields
    /\ call.keys = UsPhonePath
    /\ call.defaultValue = JStr("")
    /\ ret.value = JNull

\* the payloads ps cut merged into runs of count records, numbered from 1
BatchesOf(ps, merged, count) ==
    LET batches == (Len(merged) + count - 1) \div count
    IN /\ Len(ps) = batches
       /\ \A k \in 1..batches :
            /\ ps[k].filename = "vocabulary_batch_" \o ToString(k)
            /\ Len(ps[k].data) =
                 IF k < batches THEN count
                 ELSE Len(merged) - (batches - 1) * count
            /\ \A j \in 1..Len(ps[k].data) :
                 ps[k].data[j] = merged[(k - 1) * count + j]

\* C19: the batch export of a merged list of length L with a positive batch
\* size B emits ceil(L / B) payloads, numbered 1 to ceil(L / B), each of B
\* consecutive records but possibly the last, which together are the merged
\* list in its order.
C19_BatchesCoverMergedList ==
    [][(batchLoop.running /\ ~batchLoop'.running /\ splitCount > 0)
         => BatchesOf(downloads'.payloads, FlatMapData(results), splitCount)]_vars

\* eight records exported in batches of three: three payloads, the last of
\* two records
C19_ShortLastBatch ==
    /\ downloads.by = "handleExportByQuantity"
    /\ ~batchLoop.running
    /\ splitCount = 3
    /\ Len(FlatMapData(results)) = 8
    /\ Len(downloads.payloads) = 3
    /\ Len(downloads.payloads[3].data) = 2

\* the number of records of the file results before the f-th
RECURSIVE RecordsBefore(_, _)
RecordsBefore(rs, f) ==
    IF f = 1 THEN 0 ELSE RecordsBefore(rs, f - 1) + Len(rs[f - 1].data)

\* C20: the merged export emits one payload, which is the records of all
\* file results, file after file in the order of results and, within a
\* file, in the order of its record list, none lost and none twice.
C20_MergedIsConcatenation ==
    downloads.by = "handleExportMerged"
        => /\ Len(downloads.payloads) = 1
           /\ downloads.payloads[1].filename = "vocabulary_merged"
           /\ Len(downloads.payloads[1].data)
                = RecordsBefore(results, Len(results) + 1)
           /\ \A f \in DOMAIN results :
                \A j \in DOMAIN results[f].data :
                    downloads.payloads[1].data[RecordsBefore(results, f) + j]
                      = results[f].data[j]

\* two files with records have been merged: a.md's seven, then b.md's one
C20_TwoFilesMerged ==
    /\ downloads.by = "handleExportMerged"
    /\ Len(results) = 2
    /\ results[1].fileName = "a.md"
    /\ Len(results[1].data) = 7
    /\ Len(results[2].data) = 1
    /\ downloads.payloads[1].data[8] = results[2].data[1]

\* the step is the return of an export handler
ExportReturns ==
    /\ downloads' # downloads \/ batchLoop.running
    /\ ~batchLoop'.running

\* C21: the three exports (per file, merged, in batches) leave results
\* unchanged and can be repeated in any order: an invocation on the same
\* results emits the payloads its handler emitted when first invoked.
C21_ExportsRepeatable ==
    [][/\ results' = results
       /\ ExportReturns
            => \A x \in emitted :
                 (/\ x.by = downloads'.by
                  /\ x.splitCount =
                       IF x.by = "handleExportByQuantity" THEN splitCount
                       ELSE 0)
                 => x.payloads = downloads'.payloads]_vars

\* each of the three handlers has been invoked, and invoked again
C21_EachExportRepeated ==
    /\ results # <<>>
    /\ \A by \in {"handleExportOriginal", "handleExportMerged",
                  "handleExportByQuantity"} :
         \E x \in emitted : x.by = by /\ x.times = 2 /\ x.payloads # <<>>

\* the response holds something at the path that is neither null nor empty
HoldsAt(apiData, keys) == ~Falsy(Resolved(apiData, keys))

\* C22: each lookup attempt emits exactly one log event, for its entry:
\* of type success when the response holds a US phonetic or a translation
\* field, of type error otherwise, and always of type error when the
\* lookup returned no response.
C22_OneLogPerLookup ==
    (call.fn = "task" /\ ret.done)
        => /\ Len(ret.value) = 1
           /\ ret.value[1].msg[2] = call.entry.word
           /\ ret.value[1].type =
                IF \/ HoldsAt(call.apiData, UsPhonePath)
                   \/ HoldsAt(call.apiData, TranslationPath)
                THEN "success" ELSE "error"
           /\ call.apiData.t = "null" => ret.value[1].type = "error"

\* a lookup without a response has been logged as an error
C22_AbsentLoggedAsError ==
    /\ call.fn = "task"
    /\ ret.done
    /\ call.apiData.t = "null"
    /\ ret.value = << [msg |-> <<"[warning] ", call.entry.word, " incomplete">>,
                       type |-> "error"] >>

\* line i of the text holds a character that is not white space
NonBlank(content, i) == \E m \in DOMAIN content[i] : content[i][m] \notin WhiteSpace

\* the lines at which a block starts: a line that is not blank, at the
\* head of the text or after a blank line
BlockStarts(content) ==
    { i \in DOMAIN content :
        NonBlank(content, i) /\ (i = 1 \/ ~NonBlank(content, i - 1)) }

\* the line is d digits, w characters of white space, then a text
IsTitle(l, d, w) ==
    /\ d >= 1 /\ w >= 1 /\ d + w < Len(l)
    /\ \A m \in 1..d : l[m] \in Digit
    /\ \A m \in (d + 1)..(d + w) : l[m] \in WhiteSpace
    /\ l[d + w + 1] \notin WhiteSpace

\* the block that starts at line i has two lines or more and a first line
\* of the form <digits> <text>
WellFormedAt(content, i) ==
    /\ i < Len(content)
    /\ NonBlank(content, i + 1)
    /\ \E d, w \in 1..Len(content[i]) : IsTitle(Trim(content[i]), d, w)

WellFormedStarts(content) ==
    { i \in BlockStarts(content) : WellFormedAt(content, i) }

\* C23: parseMarkdownFile leaves out a malformed block (fewer than two
\* lines that are not empty, or a first line not of the form <digits>
\* <text>) and goes on: the entries returned are those of the well-formed
\* blocks, one for each, in the order of the blocks.
C23_EntriesOfWellFormedBlocks ==
    (call.fn = "parseMarkdownFile" /\ ret.done)
        => /\ Len(ret.value) = Cardinality(WellFormedStarts(call.content))
           /\ \A k \in DOMAIN ret.value :
                \E i \in WellFormedStarts(call.content) :
                    /\ Cardinality({ j \in WellFormedStarts(call.content) :
                                       j <= i }) = k
                    /\ \E d, w \in 1..Len(call.content[i]) :
                         /\ IsTitle(Trim(call.content[i]), d, w)
                         /\ ret.value[k].rank
                              = SubSeq(Trim(call.content[i]), 1, d)
                         /\ ret.value[k].word
                              = Text(SubSeq(Trim(call.content[i]), d + w + 1,
                                            Len(Trim(call.content[i]))))

\* a block of one line has been left out, the block after it has yielded
\* its entry
C23_MalformedBlockSkipped ==
    /\ call.fn = "parseMarkdownFile"
    /\ ret.done
    /\ call.content = << <<"1", " ", "a">>,
                         <<" ">>,
                         <<" ", "2", " ", " ", "b">>,
                         <<"n", ".", " ", "[", "\"", "x", "\"", "]">>,
                         <<"1">> >>
    /\ Len(ret.value) = 1
    /\ ret.value[1].rank = <<"2">>
    /\ ret.value[1].word = "b"

\* the step dispatches the lookups of a window of invocation n
Dispatches(n) == runs'[n].lookups > runs[n].lookups

\* the entries of invocation n that come before the window at offset i of
\* its file fi
EntriesBefore(r) == SumWords(SubSeq(r.parsedFiles, 1, r.fi - 1)) + r.i

\* C24: the windows of a run are processed one after the other: a step
\* that dispatches the lookups of a window (of the same file or of the file
\* after) is taken only when no task of the window before is left in
\* flight but the one the step itself settles, every entry before the new
\* window is counted, with a response or without, and the lookups in flight
\* after the step are those of the new window alone.
C24_WindowsInSequence ==
    [][\A n \in DOMAIN runs :
         Dispatches(n) =>
           /\ Cardinality(runs[n].inflight) <= 1
           /\ runs[n].inflight # {} =>
                runs'[n].globalProcessedCount
                  = runs[n].globalProcessedCount + 1
           /\ runs'[n].globalProcessedCount = EntriesBefore(runs'[n])
           /\ runs'[n].inflight = Chunk(WordsOf(runs'[n]), runs'[n].i)
           /\ runs'[n].lookups
                = runs[n].lookups + Cardinality(runs'[n].inflight)]_vars

\* the second window of a.md is in flight, a lookup of the first window
\* having failed
C24_SecondWindowAfterFailure ==
    \E n \in DOMAIN runs :
        /\ runs[n].pc = "window"
        /\ runs[n].parsedFiles[runs[n].fi] = "a.md"
        /\ runs[n].i = CONCURRENCY
        /\ runs[n].inflight = Chunk(WordsOf(runs[n]), CONCURRENCY)
        /\ runs[n].inflight # {}
        /\ runs[n].lookups = CONCURRENCY + Cardinality(runs[n].inflight)
        /\ runs[n].globalProcessedCount = CONCURRENCY
        /\ \E x \in DOMAIN runs[n].fileProcessedWords :
             runs[n].fileProcessedWords[x].phoneticUs = JStr("")

C28_CurrentWithinTotal == progress.current <= progress.total

\* C29: whenever results are published they hold one FileResult for each
\* file of the selection, with the same names in the same order.
C29_ResultsOfSelection == results # <<>> => ResultNames(results) = files

\* the entries of invocation r whose records are in a record list: those
\* of the files pushed to allResults, and those of the list of the file in
\* progress
EntriesAppended(r) ==
    SumEntriesHeld(r.allResults)
      + (IF r.fi > Len(r.allResults)
         THEN EntriesHeld([fileName |-> r.parsedFiles[r.fi],
                           data |-> r.fileProcessedWords])
         ELSE 0)

\* every record list of invocation n is after the step what it was before
RecordListsKept(n) ==
    /\ \A f \in DOMAIN runs[n].allResults :
         /\ f \in DOMAIN runs'[n].allResults
         /\ runs'[n].allResults[f] = runs[n].allResults[f]
    /\ runs[n].fi > 0 =>
         ListOfFile(runs'[n], runs[n].fi) = runs[n].fileProcessedWords

\* C30: at every point of a run its count of processed entries is the
\* number of entries whose records are in a record list; the step that
\* appends the records of an entry raises the count by one, no other step
\* appends a record or changes the count, and the progress written by
\* that step is the count.
C30_CountIsEntriesAppended ==
    [][\A n \in DOMAIN runs :
         /\ runs[n].globalProcessedCount = EntriesAppended(runs[n])
         /\ Alive(runs[n]) =>
              \/ /\ runs'[n].globalProcessedCount = runs[n].globalProcessedCount
                 /\ RecordListsKept(n)
              \/ /\ runs'[n].globalProcessedCount
                      = runs[n].globalProcessedCount + 1
                 /\ progress'.current = runs'[n].globalProcessedCount
                 /\ \E k \in runs[n].inflight :
                      /\ \/ runs'[n].inflight = runs[n].inflight \ {k}
                         \/ runs[n].inflight = {k}
                      /\ \E outcome \in Outcomes :
                           Appended(n)
                             = EntryRecords(WordsOf(runs[n])[k],
                                 fetchWordData(WordsOf(runs[n])[k].word,
                                               outcome))]_vars

\* two entries of the first window of a.md are counted, their three
\* records are in the list, and three lookups of the window are in flight
C30_TwoEntriesCounted ==
    \E n \in DOMAIN runs :
        /\ runs[n].pc = "window"
        /\ runs[n].parsedFiles[runs[n].fi] = "a.md"
        /\ runs[n].globalProcessedCount = 2
        /\ progress.current = 2
        /\ Len(runs[n].fileProcessedWords) = 3
        /\ Cardinality(runs[n].inflight) = 3

\* the window of its file that holds the entry of a record: the windows
\* are the slices (0, CONCURRENCY), (CONCURRENCY, 2 * CONCURRENCY), ...
WindowOf(f, rec) == (RecordPlace(f, rec)[1] - 1) \div CONCURRENCY

\* no record of a later window comes before a record of an earlier one
InWindowOrder(fr) ==
    \A x, y \in DOMAIN fr.data :
        x < y => WindowOf(fr.fileName, fr.data[x])
                   <= WindowOf(fr.fileName, fr.data[y])

\* the record lists of invocation r: the files pushed and the file in
\* progress
RecordLists(r) ==
    { r.allResults[f] : f \in DOMAIN r.allResults }
      \cup (IF r.fi > 0
            THEN {[fileName |-> r.parsedFiles[r.fi],
                   data |-> r.fileProcessedWords]}
            ELSE {})

\* C31: within a FileResult every record of an entry of window k comes
\* before every record of an entry of window k+1, in whatever order the
\* lookups of a window settle; so it is in every record list of a run and
\* in the results published.
C31_RecordsInWindowOrder ==
    /\ \A n \in DOMAIN runs : \A fr \in RecordLists(runs[n]) : InWindowOrder(fr)
    /\ \A k \in DOMAIN results : InWindowOrder(results[k])

\* the result of a.md is published with the records of both windows, the
\* lookup of its first entry not having settled first
C31_BothWindowsPublished ==
    \E k \in DOMAIN results :
        /\ results[k].fileName = "a.md"
        /\ EntriesHeld(results[k]) = Len(FileWords("a.md"))
        /\ results[k].data[1].text # FileWords("a.md")[1].word
        /\ WindowOf("a.md", results[k].data[Len(results[k].data)]) = 1

\* the records of one entry are next to each other
Contiguous(fr) ==
    \A x, y, z \in DOMAIN fr.data :
        (x < y /\ y < z /\ fr.data[x].text = fr.data[z].text)
            => fr.data[y].text = fr.data[x].text

\* C32: the records of one entry are contiguous in the record list of its
\* file: the records of two entries of one window are not interleaved, in
\* whatever order their lookups settle.
C32_RecordsOfEntryContiguous ==
    /\ \A n \in DOMAIN runs : \A fr \in RecordLists(runs[n]) : Contiguous(fr)
    /\ \A k \in DOMAIN results : Contiguous(results[k])

\* the two records of the first entry of a.md are in the list of a.md
\* after a record of another entry of its window and before the window
\* has settled
C32_TwoRecordsAfterAnother ==
    \E n \in DOMAIN runs :
        /\ runs[n].pc = "window"
        /\ runs[n].parsedFiles[runs[n].fi] = "a.md"
        /\ runs[n].inflight # {}
        /\ runs[n].i = 0
        /\ \E x \in DOMAIN runs[n].fileProcessedWords :
             /\ x > 1
             /\ x + 1 \in DOMAIN runs[n].fileProcessedWords
             /\ runs[n].fileProcessedWords[x].text = FileWords("a.md")[1].word
             /\ runs[n].fileProcessedWords[x + 1].text
                  = FileWords("a.md")[1].word
             /\ runs[n].fileProcessedWords[x].partOfSpeech
                  # runs[n].fileProcessedWords[x + 1].partOfSpeech

\* C33: within a run each entry is looked up at most once: a step that
\* dispatches lookups dispatches those of one window, the entries looked
\* up before it being the entries that come before that window, one lookup
\* each; a lookup that fails is not dispatched again,
\* and every lookup dispatched is in flight or has settled and been
\* counted, once; a run that ends without a cancellation has dispatched
\* one lookup per entry; and a step appends records of an entry only when
\* it settles the lookup of that entry.
C33_OneLookupPerEntry ==
    [][\A n \in DOMAIN runs :
         /\ runs[n].lookups
              = runs[n].globalProcessedCount + Cardinality(runs[n].inflight)
         /\ runs[n].lookups <= EntryCount(runs[n].parsedFiles)
         /\ Dispatches(n) =>
              /\ runs[n].lookups = EntriesBefore(runs'[n])
              /\ runs'[n].inflight = Chunk(WordsOf(runs'[n]), runs'[n].i)
              /\ runs'[n].lookups
                   = runs[n].lookups + Cardinality(runs'[n].inflight)
         /\ (Alive(runs[n]) /\ ~Dispatches(n)) =>
              runs'[n].lookups = runs[n].lookups
         /\ (Completes(n) /\ ~abortRef) =>
              runs'[n].lookups = EntryCount(runs[n].parsedFiles)
         /\ (Alive(runs[n]) /\ ~RecordListsKept(n)) =>
              \E k \in runs[n].inflight :
                  /\ k \notin runs'[n].inflight \/ Dispatches(n)
                  /\ \A j \in DOMAIN Appended(n) :
                       Appended(n)[j].text = WordsOf(runs[n])[k].word]_vars

\* a run of two files has ended without a cancellation after a lookup
\* that failed: one lookup per entry has been dispatched
C33_EveryEntryLookedUpOnce ==
    \E n \in DOMAIN runs :
        /\ runs[n].pc = "done" /\ ~abortRef
        /\ faults > 0
        /\ Len(runs[n].parsedFiles) = 2
        /\ runs[n].lookups = Len(FileWords("a.md")) + Len(FileWords("b.md"))
        /\ runs[n].lookups = runs[n].globalProcessedCount
        /\ \E f \in DOMAIN runs[n].allResults :
             \E x \in DOMAIN runs[n].allResults[f].data :
                 runs[n].allResults[f].data[x].phoneticUs = JStr("")

\* the lines of the block that starts at line i, after its first
Remaining(content, i) ==
    { j \in DOMAIN content :
        j > i /\ \A m \in i..j : NonBlank(content, m) }

\* the first of the remaining lines of the block that holds a bracket-quote
\* span and a part-of-speech marker, the empty string when none does
FirstCandidateAfterTitle(content, i) ==
    LET found == { j \in Remaining(content, i) : IsCandidate(Trim(content[j])) }
    IN IF found = {} THEN <<>> ELSE Trim(content[Min(found)])

\* C34: the definition line of a block is chosen among the lines after its
\* title line: the rawTrans of each entry returned is the first candidate
\* among the remaining lines of its block, and never the title line.
C34_DefLineAfterTitle ==
    (call.fn = "parseMarkdownFile" /\ ret.done)
        => \A k \in DOMAIN ret.value :
             \A i \in WellFormedStarts(call.content) :
                 Cardinality({ j \in WellFormedStarts(call.content) : j <= i })
                     = k
                   => ret.value[k].rawTrans
                        = FirstCandidateAfterTitle(call.content, i)

\* the step is one of invocation n
StepOf(n) == Alive(runs[n]) /\ runs'[n] # runs[n]

\* C35: a run that has reached its end, completed or cancelled, does not
\* update progress.currentWord: no lookup of it is left in flight, it
\* takes no step, the step that ends its loop leaves the headword as it
\* was, and so does every step of a run after its cancel flag is set; the
\* headword changes only by a step of a live run or by a selection, a
\* reset or a new task.
C35_NoHeadwordAfterEnd ==
    [][/\ \A n \in DOMAIN runs :
            /\ runs[n].pc = "done" =>
                 /\ runs[n].inflight = {}
                 /\ runs'[n] = runs[n] \/ runs'[n] = NewRun(files)
            /\ (StepOf(n) /\ runs[n].pc # "parsing"
                  /\ (abortRef \/ runs'[n].pc = "done")) =>
                 progress'.currentWord = progress.currentWord
       /\ progress'.currentWord # progress.currentWord =>
            \/ \E n \in DOMAIN runs : StepOf(n)
            \/ progress' = NoProgress]_vars

\* a run of a.md stopped during its first window has ended: the headword
\* is the one written when the window was dispatched
C35_HeadwordKeptAfterStop ==
    \E n \in DOMAIN runs :
        /\ build = "stop"
        /\ abortRef
        /\ ~processing
        /\ runs[n].pc = "done"
        /\ runs[n].fi > 0
        /\ runs[n].parsedFiles[runs[n].fi] = "a.md"
        /\ runs[n].globalProcessedCount = CONCURRENCY
        /\ runs[n].lookups = CONCURRENCY
        /\ progress.currentWord = FileWords("a.md")[CONCURRENCY].word
        /\ progress.current = CONCURRENCY

\* C36: handleExportByQuantity comes to its end for every batch size the
\* number input can hold, 0 and the negative ones included: each turn of
\* its loop moves the index forward, towards the end of the merged list.
C36_BatchLoopAdvances ==
    [][(batchLoop.running /\ batchLoop'.running)
         => batchLoop'.i > batchLoop.i]_vars

====
